---- MODULE Spec2Model ----
(***************************************************************************)
(* Model of src/export/csv.rs (subtitles-rs): episode_prefix and           *)
(* export_csv.  Strings are sequences of one-character strings, times are  *)
(* integer milliseconds, Option<T> is a sequence of length 0 (None) or 1   *)
(* (Some), and an aligned pair is the tuple <<foreign, native>>.           *)
(***************************************************************************)
EXTENDS Integers, Sequences, FiniteSets, TLC

VARIABLES
    file_stem,   \* exporter.file_stem()
    aligned,     \* exporter.align(): the unfiltered aligned pairs
    prefix,      \* let prefix (line 51)
    filtered,    \* let aligned (lines 63-67): the filtered pairs
    idx,         \* position of the for loop (line 70) in filtered, 1-based
    period,      \* let period (line 80) of the row being built
    image_path,  \* let image_path (line 82), an Option
    audio_path,  \* let audio_path (line 83), an Option
    buffer,      \* the records serialized by wtr (line 103), in order
    skipped,     \* loop iterations whose `if let Some(curr)` guard failed
    calls,       \* the calls made on the exporter, in order
    pc,          \* position of export_csv
    result       \* the value export_csv returns

vars == <<file_stem, aligned, prefix, filtered, idx, period, image_path,
          audio_path, buffer, skipped, calls, pc, result>>

(* ------------------------------ bounds --------------------------------- *)

MaxStem == 4
MaxAligned == 3

(* --------------------------- Option<T> --------------------------------- *)

None == <<>>
Some(x) == <<x>>
IsSome(o) == Len(o) = 1
Unwrap(o) == o[1]
\* Option<Option<T>> -> Option<T>
OptFlatten(oo) == IF IsSome(oo) THEN Unwrap(oo) ELSE None

(* ------------------------------ strings -------------------------------- *)

Str(n, S) == UNION {[1..k -> S] : k \in 0..n}

Digits == <<"0", "1", "2", "3", "4", "5", "6", "7", "8", "9">>
IsDigit(c) == \E d \in 1..10 : Digits[d] = c
IsSep(c) == c \in {"-", "_", "."}

\* str::replace for one-character patterns
Replace(s, from, to) == [k \in 1..Len(s) |-> IF s[k] = from THEN to ELSE s[k]]

\* The start of the leftmost match of [0-9][-_.0-9]+$ in s, or 0 if none.
RegexMatchStart(s) ==
    LET starts == {p \in 1..Len(s) :
                      /\ IsDigit(s[p])
                      /\ p < Len(s)
                      /\ \A q \in (p + 1)..Len(s) : IsDigit(s[q]) \/ IsSep(s[q])}
    IN IF starts = {} THEN 0
       ELSE CHOOSE p \in starts : \A r \in starts : p <= r

\* Lexicographic order on strings, characters compared by code point.
CharCode(c) ==
    CASE c = " " -> 32
      [] c = "-" -> 45
      [] c = "." -> 46
      [] IsDigit(c) -> 47 + (CHOOSE d \in 1..10 : Digits[d] = c)
      [] c = ":" -> 58
      [] c = "_" -> 95
      [] OTHER -> 102

RECURSIVE StrLeq(_, _)
StrLeq(a, b) ==
    IF a = <<>> THEN TRUE
    ELSE IF b = <<>> THEN FALSE
    ELSE IF CharCode(Head(a)) # CharCode(Head(b))
         THEN CharCode(Head(a)) < CharCode(Head(b))
         ELSE StrLeq(Tail(a), Tail(b))

(* ----------------- collaborators outside src/export/csv.rs ------------- *)

\* Period: [begin, end] in milliseconds.
Period(b, e) == [begin |-> b, end |-> e]

\* Period::grow(before, after): pads the range on each side in proportion
\* to its own duration (the factors are given in tenths); begin never
\* goes below zero.
grow(p, beforeTenths, afterTenths) ==
    LET dur == p.end - p.begin
        b == p.begin - (beforeTenths * dur) \div 10
    IN Period(IF b < 0 THEN 0 ELSE b, p.end + (afterTenths * dur) \div 10)

midpoint(p) == (p.begin + p.end) \div 2

\* {:0w} formatting of a natural number
RECURSIVE DecPad(_, _)
DecPad(n, w) ==
    IF n < 10 /\ w <= 1 THEN <<Digits[n + 1]>>
    ELSE Append(DecPad(n \div 10, w - 1), Digits[(n % 10) + 1])

\* time::seconds_to_hhmmss_sss: HH:MM:SS.mmm, zero padded
seconds_to_hhmmss_sss(ms) ==
    LET h == ms \div 3600000
        m == (ms \div 60000) % 60
        s == (ms \div 1000) % 60
        f == ms % 1000
    IN DecPad(h, 2) \o <<":">> \o DecPad(m, 2) \o <<":">> \o DecPad(s, 2)
       \o <<".">> \o DecPad(f, 3)

\* Subtitle: a period and a text made of tokens, some of which are markup.
Subtitle(b, e, t) == [period |-> Period(b, e), text |-> t]
MarkupTokens == {"<i>", "</i>", "{b}"}
IsPlain(tok) == tok \notin MarkupTokens
\* Subtitle::plain_text: the text with the markup stripped
plain_text(sub) == SelectSeq(sub.text, IsPlain)

\* ItemsInContextExt::items_in_context: one Context per item, holding the
\* item's neighbours at offsets -1, 0, +1 (absent when out of range).
items_in_context(s) ==
    [k \in 1..Len(s) |->
        [prev |-> IF k > 1 THEN Some(s[k - 1]) ELSE None,
         curr |-> Some(s[k]),
         next |-> IF k < Len(s) THEN Some(s[k + 1]) ELSE None]]

\* Context::map with a closure that projects slot tr of a pair
OptProject(o, tr) == IF IsSome(o) THEN Some(Unwrap(o)[tr]) ELSE None
CtxMap(ctx, tr) ==
    [prev |-> OptProject(ctx.prev, tr), curr |-> OptProject(ctx.curr, tr),
     next |-> OptProject(ctx.next, tr)]

\* Context<Option<T>>::flatten
CtxFlatten(ctx) ==
    [prev |-> OptFlatten(ctx.prev), curr |-> OptFlatten(ctx.curr),
     next |-> OptFlatten(ctx.next)]

\* Exporter::schedule_image_export / schedule_audio_export return the path
\* of the file the request will produce.
ImagePath(t) == [kind |-> "image", at |-> t]
AudioPath(lang, p) == [kind |-> "audio", lang |-> lang, span |-> p]

(* ------------------------------ inputs --------------------------------- *)

StemAlphabet == {"f", "1", "-", "_", "."}
Stems == Str(MaxStem, StemAlphabet)
film == <<"f", "i", "l", "m">>
lesson_03 == <<"l", "e", "s", "s", "o", "n", "_", "0", "3">>
series_01_02 == <<"s", "e", "r", "i", "e", "s", "_", "0", "1", "_", "0", "2">>

ForeignLang == "es"
Title == "title"

ForeignSubs ==
    { Subtitle(10000, 11000, <<"<i>", "a", "</i>">>),
      Subtitle(10500, 20500, <<"b">>),
      Subtitle(3602000, 3603000, <<"c", "{b}">>) }
NativeSubs == { Subtitle(10000, 12000, <<"{b}", "y">>) }

Opt(S) == {None} \cup {Some(x) : x \in S}
AlignedPairs == Opt(ForeignSubs) \X Opt(NativeSubs)
AlignedSeqs == Str(MaxAligned, AlignedPairs)

(* ------------------------- src/export/csv.rs --------------------------- *)

\* episode_prefix normalizing only '-'
episode_prefix_DashOnly(stem) ==
    LET p == RegexMatchStart(stem)
    IN IF p = 0 THEN <<>>
       ELSE Append(Replace(SubSeq(stem, p, Len(stem)), "-", "."), " ")

episode_prefix(stem) ==
    LET p == RegexMatchStart(stem)
    IN IF p = 0 THEN <<>>
       ELSE LET ep == SubSeq(stem, p, Len(stem))
            IN Append(Replace(Replace(ep, "-", "."), "_", "."), " ")

\* the alignment left unfiltered
FilterAligned_KeepAll(al) == al

\* .filter(|&&(ref f, _)| f.is_some())
HasForeign(pair) == IsSome(pair[1])
FilterAligned(al) == SelectSeq(al, HasForeign)

\* the slots the projections |&(ref f, _)| f and |&(_, ref n)| n pick
First == 1
Second == 2

\* let foreign = ctx.map(|&(ref f, _)| f).flatten();
ForeignCtx(ctx) == CtxFlatten(CtxMap(ctx, First))
\* let native = ctx.map(|&(_, ref n)| n).flatten();
NativeCtx(ctx) == CtxFlatten(CtxMap(ctx, Second))

\* let period = curr.period.grow(1.5, 1.5);
GrownPeriod(curr) == grow(curr.period, 15, 15)

\* the image taken where the grown period begins
ImageInstant_Begin(p) == p.begin

\* the instant passed to schedule_image_export
ImageInstant(p) == midpoint(p)

\* the sort key taken from the end of the period
SortKey_End(pre, p) == pre \o seconds_to_hhmmss_sss(p.end)

\* format!("{}{}", &prefix, &seconds_to_hhmmss_sss(period.begin()))
SortKey(pre, p) == pre \o seconds_to_hhmmss_sss(p.begin)

\* the raw text instead of the plain text
PlainText_Raw(o) == IF IsSome(o) THEN Some(Unwrap(o).text) ELSE None

\* s.plain_text() under Option::map
PlainText(o) == IF IsSome(o) THEN Some(plain_text(Unwrap(o))) ELSE None

\* AnkiNote with the previous and the next context exchanged
AnkiNote_Swapped(pre, p, image, audio, foreign, native) ==
    [sound        |-> [open |-> "[sound:", path |-> audio, close |-> "]"],
     time         |-> SortKey(pre, p),
     source       |-> Title,
     image        |-> [open |-> "<img src=\"", path |-> image, close |-> "\" />"],
     foreign_curr |-> PlainText(foreign.curr),
     native_curr  |-> PlainText(native.curr),
     foreign_prev |-> PlainText(foreign.next),
     native_prev  |-> PlainText(native.next),
     foreign_next |-> PlainText(foreign.prev),
     native_next  |-> PlainText(native.prev)]

\* AnkiNote { ... }
AnkiNote(pre, p, image, audio, foreign, native) ==
    [sound        |-> [open |-> "[sound:", path |-> audio, close |-> "]"],
     time         |-> SortKey(pre, p),
     source       |-> Title,
     image        |-> [open |-> "<img src=\"", path |-> image, close |-> "\" />"],
     foreign_curr |-> PlainText(foreign.curr),
     native_curr  |-> PlainText(native.curr),
     foreign_prev |-> PlainText(foreign.prev),
     native_prev  |-> PlainText(native.prev),
     foreign_next |-> PlainText(foreign.next),
     native_next  |-> PlainText(native.next)]

Call(op, arg, ok) == [op |-> op, arg |-> arg, ok |-> ok]

\* The context of the row the loop is at.
Ctx == items_in_context(filtered)[idx]

Init ==
    /\ \/ /\ file_stem \in Stems \cup {film, lesson_03, series_01_02}
          /\ aligned = <<<<Some(Subtitle(10000, 11000, <<"a">>)), None>>>>
       \/ /\ file_stem = lesson_03
          /\ aligned \in AlignedSeqs
    /\ prefix = <<>>
    /\ filtered = <<>>
    /\ idx = 0
    /\ period = Period(0, 0)
    /\ image_path = None
    /\ audio_path = None
    /\ buffer = <<>>
    /\ skipped = 0
    /\ calls = <<>>
    /\ pc = "start"
    /\ result = "none"

\* lines 50-67: the prefix, the writer, the filtered alignment
Start ==
    /\ pc = "start"
    /\ prefix' = episode_prefix(file_stem)
    /\ filtered' = FilterAligned(aligned)
    /\ idx' = 1
    /\ pc' = "loop"
    /\ UNCHANGED <<file_stem, aligned, period, image_path, audio_path, buffer,
                   skipped, calls, result>>

\* lines 70-82: the next context, the guard, the period and the image request
ScheduleImage ==
    /\ pc = "loop"
    /\ idx <= Len(filtered)
    /\ LET foreign == ForeignCtx(Ctx)
       IN IF IsSome(foreign.curr)
          THEN LET p == GrownPeriod(Unwrap(foreign.curr))
               IN /\ period' = p
                  /\ calls' = Append(calls,
                        Call("schedule_image_export", ImageInstant(p), TRUE))
                  /\ image_path' = Some(ImagePath(ImageInstant(p)))
                  /\ pc' = "audio"
                  /\ UNCHANGED <<idx, skipped>>
          ELSE /\ idx' = idx + 1
               /\ skipped' = skipped + 1
               /\ UNCHANGED <<period, calls, image_path, pc>>
    /\ UNCHANGED <<file_stem, aligned, prefix, filtered, audio_path, buffer,
                   result>>

\* line 83: the audio request
ScheduleAudio ==
    /\ pc = "audio"
    /\ calls' = Append(calls,
          Call("schedule_audio_export", [lang |-> ForeignLang, span |-> period],
               TRUE))
    /\ audio_path' = Some(AudioPath(ForeignLang, period))
    /\ pc' = "serialize"
    /\ UNCHANGED <<file_stem, aligned, prefix, filtered, idx, period,
                   image_path, buffer, skipped, result>>

\* Serialize writing the data file after every row
Serialize_Streaming ==
    /\ pc = "serialize"
    /\ \E ok \in BOOLEAN :
          IF ok
          THEN /\ buffer' = Append(buffer,
                     AnkiNote(prefix, period, Unwrap(image_path),
                              Unwrap(audio_path), ForeignCtx(Ctx),
                              NativeCtx(Ctx)))
               /\ calls' = Append(calls,
                     Call("export_data_file",
                          [name |-> "cards.csv", data |-> buffer'], TRUE))
               /\ idx' = idx + 1
               /\ pc' = "loop"
               /\ UNCHANGED result
          ELSE /\ pc' = "returned"
               /\ result' = "error serializing to RAM"
               /\ UNCHANGED <<buffer, idx, calls>>
    /\ image_path' = None
    /\ audio_path' = None
    /\ UNCHANGED <<file_stem, aligned, prefix, filtered, period, skipped>>

\* lines 88-104: the note is built and serialized; an error returns
Serialize ==
    /\ pc = "serialize"
    /\ \E ok \in BOOLEAN :
          IF ok
          THEN /\ buffer' = Append(buffer,
                     AnkiNote(prefix, period, Unwrap(image_path),
                              Unwrap(audio_path), ForeignCtx(Ctx),
                              NativeCtx(Ctx)))
               /\ idx' = idx + 1
               /\ pc' = "loop"
               /\ UNCHANGED result
          ELSE /\ pc' = "returned"
               /\ result' = "error serializing to RAM"
               /\ UNCHANGED <<buffer, idx>>
    /\ image_path' = None
    /\ audio_path' = None
    /\ UNCHANGED <<file_stem, aligned, prefix, filtered, period, skipped,
                   calls>>

\* ExportDataFile with the `?` dropped: a failure goes on to finish_exports
ExportDataFile_IgnoreError ==
    /\ pc = "loop"
    /\ idx > Len(filtered)
    /\ \E ok \in BOOLEAN :
          calls' = Append(calls,
              Call("export_data_file",
                   [name |-> "cards.csv", data |-> buffer], ok))
    /\ pc' = "finish"
    /\ UNCHANGED <<file_stem, aligned, prefix, filtered, idx, period,
                   image_path, audio_path, buffer, skipped, result>>

\* ExportDataFile returning Ok(()) without finish_exports
ExportDataFile_NoFinish ==
    /\ pc = "loop"
    /\ idx > Len(filtered)
    /\ \E ok \in BOOLEAN :
          /\ calls' = Append(calls,
                Call("export_data_file",
                     [name |-> "cards.csv", data |-> buffer], ok))
          /\ result' = IF ok THEN "Ok" ELSE "export_data_file failed"
    /\ pc' = "returned"
    /\ UNCHANGED <<file_stem, aligned, prefix, filtered, idx, period,
                   image_path, audio_path, buffer, skipped>>

\* line 110: exporter.export_data_file("cards.csv", &buffer)?
ExportDataFile ==
    /\ pc = "loop"
    /\ idx > Len(filtered)
    /\ \E ok \in BOOLEAN :
          /\ calls' = Append(calls,
                Call("export_data_file",
                     [name |-> "cards.csv", data |-> buffer], ok))
          /\ IF ok
             THEN pc' = "finish" /\ UNCHANGED result
             ELSE pc' = "returned" /\ result' = "export_data_file failed"
    /\ UNCHANGED <<file_stem, aligned, prefix, filtered, idx, period,
                   image_path, audio_path, buffer, skipped>>

\* lines 113-115: exporter.finish_exports()?; Ok(())
FinishExports ==
    /\ pc = "finish"
    /\ \E ok \in BOOLEAN :
          /\ calls' = Append(calls, Call("finish_exports", "all", ok))
          /\ result' = IF ok THEN "Ok" ELSE "finish_exports failed"
    /\ pc' = "returned"
    /\ UNCHANGED <<file_stem, aligned, prefix, filtered, idx, period,
                   image_path, audio_path, buffer, skipped>>

Next ==
    \/ Start
    \/ ScheduleImage
    \/ ScheduleAudio
    \/ Serialize
    \/ ExportDataFile
    \/ FinishExports

Spec == Init /\ [][Next]_vars

(* ------------------------- terms of the claims ------------------------- *)

\* The positions of al whose foreign slot is present, in order.
RECURSIVE SurvivingUpTo(_, _)
SurvivingUpTo(al, n) ==
    IF n = 0 THEN <<>>
    ELSE IF al[n][1] # <<>>
         THEN Append(SurvivingUpTo(al, n - 1), n)
         ELSE SurvivingUpTo(al, n - 1)
Surviving == SurvivingUpTo(aligned, Len(aligned))

\* Text with the markup tokens removed, as an optional field.
Stripped(slot) ==
    IF slot = <<>> THEN <<>>
    ELSE <<LET t == slot[1].text
               keep == {k \in 1..Len(t) : t[k] \notin {"<i>", "</i>", "{b}"}}
               F[k \in 0..Len(t)] ==
                   IF k = 0 THEN <<>>
                   ELSE IF k \in keep THEN Append(F[k - 1], t[k]) ELSE F[k - 1]
           IN F[Len(t)]>>

\* The slot of track tr (1 foreign, 2 native) at position n of the original
\* sequence, absent when n is out of range.
SlotAt(n, tr) == IF n \in 1..Len(aligned) THEN aligned[n][tr] ELSE <<>>

\* The slot of track tr at the k-th surviving position.
SurvSlot(k, tr) == IF k \in 1..Len(Surviving) THEN aligned[Surviving[k]][tr] ELSE <<>>

\* The period the k-th record is cut from: the foreign subtitle's period
\* padded by 1.5 times its duration on each side, begin floored at zero.
Padded(k) ==
    LET q == aligned[Surviving[k]][1][1].period
        d == q.end - q.begin
        b == q.begin - (3 * d) \div 2
    IN [begin |-> IF b < 0 THEN 0 ELSE b, end |-> q.end + (3 * d) \div 2]

CallsAt(op) == {k \in 1..Len(calls) : calls[k].op = op}
Count(op) == Cardinality(CallsAt(op))
Returned == pc = "returned"
SerializeFailed == result = "error serializing to RAM"
DataFileFailed == result = "export_data_file failed"
FinishFailed == result = "finish_exports failed"

(* ------------------------------- claims -------------------------------- *)

\* C1: export_csv serializes exactly one record per position whose foreign
\* slot is present, in the original order, none for a position whose foreign
\* slot is absent, and the `if let Some(curr)` guard never skips a position
\* of the filtered sequence; the data file handed over holds as many records
\* as there are foreign-present positions.
C1_RowFiltering ==
    /\ skipped = 0
    /\ Len(buffer) <= Len(Surviving)
    /\ \A k \in 1..Len(buffer) : buffer[k].foreign_curr = Stripped(SurvSlot(k, 1))
    /\ pc = "loop" => Len(buffer) = idx - 1
    /\ \A c \in CallsAt("export_data_file") :
          /\ Len(calls[c].arg.data) = Len(Surviving)
          /\ calls[c].arg.data = buffer

\* C1 witness: the data file was handed over for a sequence holding at least
\* two foreign-present positions and a position with only a native subtitle.
C1_Witness ==
    /\ Count("export_data_file") = 1
    /\ Len(buffer) >= 2
    /\ \E n \in 1..Len(aligned) : aligned[n][1] = <<>> /\ aligned[n][2] # <<>>

\* C2: if export_data_file fails, finish_exports is never called and
\* export_csv returns that failure.
C2_DataFileFailure ==
    \A c \in CallsAt("export_data_file") :
        ~calls[c].ok => /\ Count("finish_exports") = 0
                        /\ Returned
                        /\ DataFileFailed

\* C2 witness: export_data_file failed after rows were serialized.
C2_Witness ==
    /\ Len(buffer) >= 1
    /\ \E c \in CallsAt("export_data_file") : ~calls[c].ok

\* C3: every scheduling call precedes the single export_data_file call,
\* which precedes finish_exports; finish_exports is called at most once, and
\* exactly once when every serialization and export_data_file succeeded; no
\* scheduling call follows export_data_file or finish_exports.
C3_CallOrder ==
    /\ Count("export_data_file") <= 1
    /\ Count("finish_exports") <= 1
    /\ \A j, k \in 1..Len(calls) :
          /\ (j < k /\ calls[k].op \in {"schedule_image_export", "schedule_audio_export"})
                => calls[j].op \in {"schedule_image_export", "schedule_audio_export"}
          /\ (j < k /\ calls[k].op = "export_data_file")
                => calls[j].op # "finish_exports"
    /\ \A k \in CallsAt("finish_exports") :
          \E j \in CallsAt("export_data_file") : j < k
    /\ (Returned /\ ~SerializeFailed /\ ~DataFileFailed)
          => Count("export_data_file") = 1 /\ Count("finish_exports") = 1

\* C3 witness: a completed export with scheduling calls, the data file and
\* the finish call.
C3_Witness ==
    /\ Returned
    /\ result = "Ok"
    /\ Count("schedule_audio_export") >= 2
    /\ Count("finish_exports") = 1

\* C4 as stated: whenever export_csv returns an error, no export_data_file
\* call has completed successfully.
C4_Original ==
    (Returned /\ result # "Ok")
        => \A c \in CallsAt("export_data_file") : ~calls[c].ok

\* C4 amended: when export_csv returns an error from serializing a row or
\* from export_data_file, no export_data_file call has completed
\* successfully; an error returned after a successful export_data_file is the
\* error of finish_exports, and the file then holds every row.
C4_NoPartialFile ==
    /\ (Returned /\ (SerializeFailed \/ DataFileFailed))
          => \A c \in CallsAt("export_data_file") : ~calls[c].ok
    /\ (Returned /\ result # "Ok"
          /\ \E c \in CallsAt("export_data_file") : calls[c].ok)
          => /\ FinishFailed
             /\ \A c \in CallsAt("export_data_file") :
                   Len(calls[c].arg.data) = Len(Surviving)
    /\ result = "Ok" => \E c \in CallsAt("export_data_file") : calls[c].ok

\* C4 witness: serializing the second row failed, the first being in the
\* buffer, and nothing was written.
C4_Witness ==
    /\ Returned
    /\ SerializeFailed
    /\ Len(buffer) >= 1
    /\ Count("export_data_file") = 0

\* C10: each record has exactly one image request followed by one audio
\* request, both made before the record is serialized and both derived from
\* the current foreign subtitle's period grown by (1.5, 1.5): the image at
\* the midpoint, the audio over the whole grown period in the foreign
\* language; the image requests equal the audio requests or exceed them by
\* one, and at the end both equal the number of records.
C10_Scheduling ==
    LET img == Count("schedule_image_export")
        aud == Count("schedule_audio_export")
    IN /\ img = aud + (IF pc = "audio" THEN 1 ELSE 0)
       /\ aud = Len(buffer) + (IF pc = "serialize" \/ (Returned /\ SerializeFailed)
                               THEN 1 ELSE 0)
       /\ \A k \in 1..img :
             /\ calls[2 * k - 1].op = "schedule_image_export"
             /\ calls[2 * k - 1].arg = (Padded(k).begin + Padded(k).end) \div 2
       /\ \A k \in 1..aud :
             /\ calls[2 * k].op = "schedule_audio_export"
             /\ calls[2 * k].arg = [lang |-> ForeignLang, span |-> Padded(k)]
       /\ \A k \in 1..Len(buffer) :
             /\ buffer[k].image.path = ImagePath(calls[2 * k - 1].arg)
             /\ buffer[k].sound.path = AudioPath(ForeignLang, calls[2 * k].arg.span)
       /\ Count("export_data_file") = 1
             => img = Len(buffer) /\ aud = Len(buffer) /\ img = Len(Surviving)

\* C10 witness: the image of the second row is requested and its audio is not
\* yet, in a sequence that also holds a position without foreign text.
C10_Witness ==
    /\ pc = "audio"
    /\ Len(buffer) = 1
    /\ Len(Surviving) < Len(aligned)

\* The starts of the suffixes of file_stem that are numeric groups of at
\* least n characters: they start with a digit, end with a digit, and hold
\* only digits and the separators '-', '_', '.'.
GroupStarts(n) ==
    {p \in 1..Len(file_stem) :
        /\ Len(file_stem) - p + 1 >= n
        /\ IsDigit(file_stem[p])
        /\ IsDigit(file_stem[Len(file_stem)])
        /\ \A q \in p..Len(file_stem) :
              IsDigit(file_stem[q]) \/ file_stem[q] \in {"-", "_", "."}}

\* The longest numeric group of at least n characters ending file_stem, its
\* separators normalized to '.', followed by one space.
GroupPrefix(n) ==
    LET p == CHOOSE p \in GroupStarts(n) : \A r \in GroupStarts(n) : p <= r
    IN [k \in 1..(Len(file_stem) - p + 2) |->
           IF k = Len(file_stem) - p + 2 THEN " "
           ELSE IF file_stem[p + k - 1] \in {"-", "_"} THEN "."
           ELSE file_stem[p + k - 1]]

C6_NoMatchEmpty ==
    pc # "start" =>
        /\ GroupStarts(2) = {} => prefix = <<>>
        /\ prefix # <<>> => IsDigit(file_stem[Len(file_stem)])

\* C7 as stated: each non-absent context field of the record of original
\* position i equals the plain text of the subtitle of the same track at
\* positions i-1, i, i+1 of the original sequence.
C7_Original ==
    \A k \in 1..Len(buffer) :
        LET i == Surviving[k]
            r == buffer[k]
        IN /\ r.foreign_prev # <<>> => r.foreign_prev = Stripped(SlotAt(i - 1, 1))
           /\ r.foreign_curr # <<>> => r.foreign_curr = Stripped(SlotAt(i, 1))
           /\ r.foreign_next # <<>> => r.foreign_next = Stripped(SlotAt(i + 1, 1))
           /\ r.native_prev # <<>> => r.native_prev = Stripped(SlotAt(i - 1, 2))
           /\ r.native_curr # <<>> => r.native_curr = Stripped(SlotAt(i, 2))
           /\ r.native_next # <<>> => r.native_next = Stripped(SlotAt(i + 1, 2))

\* C7 amended: each non-absent context field of the k-th record equals the
\* plain text of the subtitle of the same track at the previous, the current
\* and the next foreign-present position of the original sequence.
C7_RoundTrip ==
    \A k \in 1..Len(buffer) :
        LET r == buffer[k]
        IN /\ r.foreign_prev # <<>> => r.foreign_prev = Stripped(SurvSlot(k - 1, 1))
           /\ r.foreign_curr # <<>> => r.foreign_curr = Stripped(SurvSlot(k, 1))
           /\ r.foreign_next # <<>> => r.foreign_next = Stripped(SurvSlot(k + 1, 1))
           /\ r.native_prev # <<>> => r.native_prev = Stripped(SurvSlot(k - 1, 2))
           /\ r.native_curr # <<>> => r.native_curr = Stripped(SurvSlot(k, 2))
           /\ r.native_next # <<>> => r.native_next = Stripped(SurvSlot(k + 1, 2))

\* C7 witness: a record whose previous surviving position is not the
\* position before it, with marked-up text before it and native text around.
C7_Witness ==
    \E k \in 2..Len(buffer) :
        /\ Surviving[k] - Surviving[k - 1] = 2
        /\ buffer[k].foreign_prev = <<<<"a">>>>
        /\ buffer[k].native_prev # <<>>
        /\ buffer[k].native_curr # <<>>

\* The foreign subtitles are in chronological order.
Chronological ==
    \A k, l \in 1..Len(Surviving) :
        LET a == aligned[Surviving[k]][1][1].period
            b == aligned[Surviving[l]][1][1].period
        IN /\ a.begin <= a.end
           /\ k <= l => a.begin <= b.begin

C9_ContextWindow ==
    /\ Len(Surviving) = 0 => Len(buffer) = 0
    /\ \A k \in 1..Len(buffer) :
          LET r == buffer[k]
          IN /\ k = 1 => r.foreign_prev = <<>> /\ r.native_prev = <<>>
             /\ k = Len(Surviving) => r.foreign_next = <<>> /\ r.native_next = <<>>
             /\ k > 1 => /\ Len(r.foreign_prev) = 1
                         /\ r.foreign_prev = Stripped(aligned[Surviving[k - 1]][1])
                         /\ Len(r.native_prev) = Len(aligned[Surviving[k - 1]][2])
             /\ k < Len(Surviving)
                   => /\ Len(r.foreign_next) = 1
                      /\ r.foreign_next = Stripped(aligned[Surviving[k + 1]][1])
                      /\ Len(r.native_next) = Len(aligned[Surviving[k + 1]][2])
             /\ Len(r.native_curr) = Len(aligned[Surviving[k]][2])
             /\ Len(r.foreign_curr) = 1

\* C9 witness: the middle record of three, its native neighbour present on
\* one side only.
C9_Witness ==
    /\ Len(buffer) = 3
    /\ buffer[2].foreign_prev # buffer[2].foreign_next
    /\ buffer[2].native_prev = <<>>
    /\ buffer[2].native_next # <<>>
    /\ buffer[1].foreign_prev = <<>>
    /\ buffer[3].foreign_next = <<>>

====
